---- MODULE Spec2Model ----
(***************************************************************************)
(* Model of the MPU-9150 driver bfs::Mpu9150 (src/src/mpu9150.cpp).        *)
(*                                                                         *)
(* The driver object is the record mpu; every public method is one action  *)
(* that runs the whole method against a transport whose individual         *)
(* register operations may fail.  The transport operations a call issued   *)
(* are kept, in order, in bus; ret is the value the call returned, call    *)
(* names the call and its arguments, out is what the call stored through   *)
(* the caller's output pointers.  written keeps, for each of the two       *)
(* filter registers of the device, the value the driver last wrote to it   *)
(* successfully.                                                           *)
(*                                                                         *)
(* Floating point values are kept exact: a scale factor FS / 32767.5f is   *)
(* represented by its full-scale numerator FS, a scaled value by the       *)
(* record [n, k] standing for n / 32767.5 * k with k the name of the       *)
(* physical constant (G_MPS2_, DEG2RAD_ or ONE), a temperature by the      *)
(* record [n, off] standing for n / TEMP_SCALE_ + off.  Rounding of the    *)
(* 32-bit floats is not represented.                                       *)
(***************************************************************************)
EXTENDS Integers, Sequences, FiniteSets, TLC

VARIABLES mpu, bus, ret, call, out, written

vars == <<mpu, bus, ret, call, out, written>>

(***************************************************************************)
(* Bounds of the model.                                                    *)
(***************************************************************************)
\* largest position, among the transport operations of one call, at which
\* the transport may be told to fail
MaxBusOps == 10
\* how many transport operations in a row may fail in one call
MaxFailures == 1

(***************************************************************************)
(* Constants of mpu9150.h.                                                 *)
(***************************************************************************)
WHOAMI_MPU9150_ == 104
RAW_DATA_RDY_INT_ == 1
FIFO_OFLOW_INT_ == 16
DATA_BUF_LEN == 15
FIFO_RECORD_LEN == 12
SETTLE_MS == 100

MAG_PASSTHROUGH == "MAG_PASSTHROUGH"
MAG_FUSED == "MAG_FUSED"
MagModes == {MAG_PASSTHROUGH, MAG_FUSED}

ACCEL_RANGE_2G == "ACCEL_RANGE_2G"
ACCEL_RANGE_4G == "ACCEL_RANGE_4G"
ACCEL_RANGE_8G == "ACCEL_RANGE_8G"
ACCEL_RANGE_16G == "ACCEL_RANGE_16G"
AccelRanges == {ACCEL_RANGE_2G, ACCEL_RANGE_4G, ACCEL_RANGE_8G, ACCEL_RANGE_16G}

GYRO_RANGE_250DPS == "GYRO_RANGE_250DPS"
GYRO_RANGE_500DPS == "GYRO_RANGE_500DPS"
GYRO_RANGE_1000DPS == "GYRO_RANGE_1000DPS"
GYRO_RANGE_2000DPS == "GYRO_RANGE_2000DPS"
GyroRanges == {GYRO_RANGE_250DPS, GYRO_RANGE_500DPS, GYRO_RANGE_1000DPS,
               GYRO_RANGE_2000DPS}

DLPF_BANDWIDTH_184HZ == "DLPF_BANDWIDTH_184HZ"
DLPF_BANDWIDTH_92HZ == "DLPF_BANDWIDTH_92HZ"
DLPF_BANDWIDTH_41HZ == "DLPF_BANDWIDTH_41HZ"
DLPF_BANDWIDTH_20HZ == "DLPF_BANDWIDTH_20HZ"
DLPF_BANDWIDTH_10HZ == "DLPF_BANDWIDTH_10HZ"
DLPF_BANDWIDTH_5HZ == "DLPF_BANDWIDTH_5HZ"
DlpfBandwidths == {DLPF_BANDWIDTH_184HZ, DLPF_BANDWIDTH_92HZ, DLPF_BANDWIDTH_41HZ,
                   DLPF_BANDWIDTH_20HZ, DLPF_BANDWIDTH_10HZ, DLPF_BANDWIDTH_5HZ}

\* a value of the enumeration's underlying type that is no enumerator
INVALID_ENUM == "INVALID_ENUM"

(***************************************************************************)
(* Arguments and transport answers the actions draw from.                  *)
(***************************************************************************)
AccelRangeArgs == {ACCEL_RANGE_2G, ACCEL_RANGE_16G, INVALID_ENUM}
GyroRangeArgs == {GYRO_RANGE_2000DPS, INVALID_ENUM}
DlpfArgs == {DLPF_BANDWIDTH_184HZ, INVALID_ENUM}
SrdArgs == {0, 9}
WhoAmIBytes == {WHOAMI_MPU9150_, 113}

\* the transport operations of one call that fail, by their position among
\* the transport operations of that call; n is the most a call of that kind
\* issues.  The transport is down for a stretch of at most MaxFailures
\* operations in a row.
FailSets(n) ==
    {{}} \cup {{i \in 1..n : a <= i /\ i < a + k} : a \in 1..n, k \in 1..MaxFailures}

(***************************************************************************)
(* The transport (imu_) as the driver sees it.                             *)
(***************************************************************************)
\* number of register operations in a log (delays and the transport's own
\* initialisation are no register operations)
TransportCount(ops) == Cardinality({i \in 1..Len(ops) : ops[i].op \in {"W", "R", "F"}})

\* the outcome the transport gives the next register operation
NextOk(ops, fail) == (TransportCount(ops) + 1) \notin fail

\* an entry of the log: the operation, its register, the value written or
\* the number of bytes asked for, the outcome, and the bytes a register read
\* delivered
BusOp(op, reg, val, ok, data) ==
    [op |-> op, reg |-> reg, val |-> val, ok |-> ok, data |-> data]

\* the bytes a read delivers: none when it fails
Delivered(ok, data) == IF ok THEN data ELSE <<>>

WriteRegister(ops, fail, reg, data) ==
    Append(ops, BusOp("W", reg, data, NextOk(ops, fail), <<>>))

\* data: the bytes the device answers with
ReadRegisters(ops, fail, reg, count, data) ==
    Append(ops, BusOp("R", reg, count % 256, NextOk(ops, fail),
                      Delivered(NextOk(ops, fail), data)))

\* the bytes of a burst go to the caller's buffer and are not kept
ReadFifoBurst(ops, fail, reg, count) ==
    Append(ops, BusOp("F", reg, count % 256, NextOk(ops, fail), <<>>))

ImuBegin(ops) == Append(ops, BusOp("I", "-", 0, TRUE, <<>>))

Delay(ops, ms) == Append(ops, BusOp("D", "-", ms, TRUE, <<>>))

LastOk(ops) == ops[Len(ops)].ok

\* the result of (part of) a call: the object, the transport log, the value returned
Res(d, ops, r) == [d |-> d, ops |-> ops, ret |-> r]

(***************************************************************************)
(* The methods are written one step per operator, a step handing the       *)
(* object and the transport log to the step that follows it in the code,   *)
(* so a step is defined before the step that precedes it.                  *)
(***************************************************************************)
\* "if (!<register operation>) return false": the result of the operation
\* that was logged last
OpResult(d, ops) == Res(d, ops, LastOk(ops))

(***************************************************************************)
(* Configuration.                                                          *)
(***************************************************************************)
AccelScale(range) ==
    CASE range = ACCEL_RANGE_2G -> 2
      [] range = ACCEL_RANGE_4G -> 4
      [] range = ACCEL_RANGE_8G -> 8
      [] range = ACCEL_RANGE_16G -> 16

GyroScale(range) ==
    CASE range = GYRO_RANGE_250DPS -> 250
      [] range = GYRO_RANGE_500DPS -> 500
      [] range = GYRO_RANGE_1000DPS -> 1000
      [] range = GYRO_RANGE_2000DPS -> 2000

\* the switch statements: the cases that are not the default
AccelRangeValid(range) == range \in AccelRanges

GyroRangeValid(range) == range \in GyroRanges

DlpfValid_AcceptAll(dlpf) == TRUE
DlpfValid(dlpf) == dlpf \in DlpfBandwidths

\* "Update stored range and scale", reached only after the write succeeded
StoreAccel_Optimistic(d, ok) ==
    [d EXCEPT !.accel_range_ = d.requested_accel_range_,
              !.accel_scale_ = d.requested_accel_scale_]
StoreAccel(d, ok) ==
    IF ok
    THEN [d EXCEPT !.accel_range_ = d.requested_accel_range_,
                   !.accel_scale_ = d.requested_accel_scale_]
    ELSE d

StoreGyro(d, ok) ==
    IF ok
    THEN [d EXCEPT !.gyro_range_ = d.requested_gyro_range_,
                   !.gyro_scale_ = d.requested_gyro_scale_]
    ELSE d

\* lines 161-164, r the result of the write
AccelCommit_Coupled(r) == Res(StoreGyro(StoreAccel(r.d, r.ret), r.ret), r.ops, r.ret)
AccelCommit(r) == Res(StoreAccel(r.d, r.ret), r.ops, r.ret)

\* lines 157-160, d holding the requested range
AccelWrite(d, ops, fail) ==
    AccelCommit(OpResult(d, WriteRegister(ops, fail, "ACCEL_CONFIG_",
                                          d.requested_accel_range_)))

ConfigAccelRange(d, ops, fail, range) ==
    IF ~AccelRangeValid(range)
    THEN Res(d, ops, FALSE)
    ELSE AccelWrite([d EXCEPT !.requested_accel_range_ = range,
                              !.requested_accel_scale_ = AccelScale(range)], ops, fail)

\* lines 197-200, r the result of the write
GyroCommit(r) == Res(StoreGyro(r.d, r.ret), r.ops, r.ret)

\* lines 193-196, d holding the requested range
GyroWrite(d, ops, fail) ==
    GyroCommit(OpResult(d, WriteRegister(ops, fail, "GYRO_CONFIG_",
                                         d.requested_gyro_range_)))

ConfigGyroRange(d, ops, fail, range) ==
    IF ~GyroRangeValid(range)
    THEN Res(d, ops, FALSE)
    ELSE GyroWrite([d EXCEPT !.requested_gyro_range_ = range,
                             !.requested_gyro_scale_ = GyroScale(range)], ops, fail)

\* lines 204-208, r the result of the write
SrdCommit(r, srd) == IF ~r.ret THEN r ELSE Res([r.d EXCEPT !.srd_ = srd], r.ops, TRUE)

ConfigSrd(d, ops, fail, srd) ==
    SrdCommit(OpResult(d, WriteRegister(ops, fail, "SMPLRT_DIV_", srd)), srd)

\* lines 245-250, r the result of the write to CONFIG_
DlpfCommit(r) ==
    IF ~r.ret THEN r
    ELSE Res([r.d EXCEPT !.dlpf_bandwidth_ = r.d.requested_dlpf_], r.ops, TRUE)

\* lines 242-245, r the result of the write to ACCEL_CONFIG2_
DlpfSecond_Once(r, fail) == DlpfCommit(r)
DlpfSecond(r, fail) ==
    IF ~r.ret THEN r
    ELSE DlpfCommit(OpResult(r.d, WriteRegister(r.ops, fail, "CONFIG_",
                                                r.d.requested_dlpf_)))

\* line 242, d holding the requested bandwidth
DlpfWrite(d, ops, fail) ==
    DlpfSecond(OpResult(d, WriteRegister(ops, fail, "ACCEL_CONFIG2_",
                                         d.requested_dlpf_)), fail)

ConfigDlpfBandwidth(d, ops, fail, dlpf) ==
    IF ~DlpfValid(dlpf)
    THEN Res(d, ops, FALSE)
    ELSE DlpfWrite([d EXCEPT !.requested_dlpf_ = dlpf], ops, fail)

(***************************************************************************)
(* Begin(mode).  whoami is the byte the transport delivers for the         *)
(* identity read when that read succeeds.                                  *)
(***************************************************************************)
\* lines 85-89, r the result of ConfigDlpfBandwidth
BeginSrd(r, fail) == IF ~r.ret THEN r ELSE ConfigSrd(r.d, r.ops, fail, 0)

\* lines 81-84, r the result of ConfigGyroRange
BeginDlpf(r, fail) ==
    IF ~r.ret THEN r
    ELSE BeginSrd(ConfigDlpfBandwidth(r.d, r.ops, fail, DLPF_BANDWIDTH_184HZ), fail)

\* lines 77-80, r the result of ConfigAccelRange
BeginGyro(r, fail) ==
    IF ~r.ret THEN r
    ELSE BeginDlpf(ConfigGyroRange(r.d, r.ops, fail, GYRO_RANGE_2000DPS), fail)

\* lines 73-76, r the result of the second clock select
BeginAccel(r, fail) ==
    IF ~r.ret THEN r
    ELSE BeginGyro(ConfigAccelRange(r.d, r.ops, fail, ACCEL_RANGE_16G), fail)

\* lines 69-89: second clock select and the default configuration
BeginDefaults(d, ops, fail) ==
    BeginAccel(OpResult(d, WriteRegister(ops, fail, "PWR_MGMNT_1_", "CLKSEL_PLL_")), fail)

\* lines 63-68: pass-through enable, only in pass-through mode
BeginPassthrough_Always(d, ops, fail) ==
    OpResult(d, WriteRegister(ops, fail, "INT_PIN_CFG_", "I2C_BYPASS_EN_"))
BeginPassthrough(d, ops, fail) ==
    IF d.mag_mode_ = MAG_PASSTHROUGH
    THEN OpResult(d, WriteRegister(ops, fail, "INT_PIN_CFG_", "I2C_BYPASS_EN_"))
    ELSE Res(d, ops, TRUE)

\* line 69 on, r the result of the pass-through step
BeginConfigure(r, fail) == IF ~r.ret THEN r ELSE BeginDefaults(r.d, r.ops, fail)

\* lines 60-62: the identity byte compared, d holding the byte read
BeginCheck(d, ops, fail) ==
    IF d.who_am_i_ # WHOAMI_MPU9150_
    THEN Res(d, ops, FALSE)
    ELSE BeginConfigure(BeginPassthrough(d, ops, fail), fail)

\* lines 57-59, r the result of the identity read
BeginIdentity(r, fail, whoami) ==
    IF ~r.ret THEN r
    ELSE BeginCheck([r.d EXCEPT !.who_am_i_ = whoami], r.ops, fail)

\* lines 53-57, r the result of the first clock select
BeginClock(r, fail, whoami) ==
    IF ~r.ret THEN r
    ELSE BeginIdentity(OpResult(r.d, ReadRegisters(r.ops, fail, "WHOAMI_", 1, <<whoami>>)),
                       fail, whoami)

\* lines 46-51: mode stored, transport started, reset written (its result is
\* not looked at), settle delay
BeginReset(d, fail, mode) ==
    Res([d EXCEPT !.mag_mode_ = mode],
        Delay(WriteRegister(ImuBegin(<<>>), fail, "PWR_MGMNT_1_", "H_RESET_"), SETTLE_MS),
        TRUE)

\* line 53, r the result of the reset step
BeginSelect(r, fail, whoami) ==
    BeginClock(OpResult(r.d, WriteRegister(r.ops, fail, "PWR_MGMNT_1_", "CLKSEL_PLL_")),
               fail, whoami)

Begin(d, fail, mode, whoami) == BeginSelect(BeginReset(d, fail, mode), fail, whoami)

(***************************************************************************)
(* Interrupt and FIFO switches.                                            *)
(***************************************************************************)
\* the value EnableDrdyInt writes to the pin-config register
IntPinCfg_Plain(mode) == "INT_PULSE_50US_"
IntPinCfg(mode) ==
    IF mode = MAG_PASSTHROUGH THEN "INT_PULSE_50US_|I2C_BYPASS_EN_" ELSE "INT_PULSE_50US_"

\* a second write, issued when the first one, of result r, succeeded
SecondWrite_Regardless(r, fail, reg, data) ==
    OpResult(r.d, WriteRegister(r.ops, fail, reg, data))
SecondWrite(r, fail, reg, data) ==
    IF ~r.ret THEN r ELSE OpResult(r.d, WriteRegister(r.ops, fail, reg, data))

EnableDrdyInt(d, fail) ==
    SecondWrite(OpResult(d, WriteRegister(<<>>, fail, "INT_PIN_CFG_", IntPinCfg(d.mag_mode_))),
                fail, "INT_ENABLE_", "INT_RAW_RDY_EN_")

DisableDrdyInt(d, fail) ==
    OpResult(d, WriteRegister(<<>>, fail, "INT_ENABLE_", "INT_DISABLE_"))

EnableFifo(d, fail) ==
    SecondWrite(OpResult(d, WriteRegister(<<>>, fail, "USER_CTRL_", "USER_CTRL_FIFO_EN_")),
                fail, "FIFO_EN_", "FIFO_EN_GYRO_|FIFO_EN_ACCEL_")

DisableFifo(d, fail) ==
    SecondWrite(OpResult(d, WriteRegister(<<>>, fail, "USER_CTRL_", "USER_CTRL_FIFO_DISABLE_")),
                fail, "FIFO_EN_", "FIF_EN_DISABLE_ALL_")

(***************************************************************************)
(* Sample decoding.  C arrays are indexed from 0, sequences from 1: the    *)
(* byte data_buf_[k] of the code is data_buf_[k + 1] here.                 *)
(***************************************************************************)
RECURSIVE BitAnd(_, _)
BitAnd(a, b) ==
    IF a = 0 \/ b = 0 THEN 0
    ELSE (a % 2) * (b % 2) + 2 * BitAnd(a \div 2, b \div 2)

\* an integer converted to int16_t
AsInt16(v) == ((v + 32768) % 65536) - 32768

\* static_cast<int16_t>(hi) << 8 | lo, stored in an int16_t
ToInt16(hi, lo) == AsInt16(hi * 256 + lo)

\* a value stored in the member fifo_count_, a signed 16-bit integer
FifoCountField(v) == AsInt16(v)

\* a value stored in the member bytes_to_read_, which holds
\* min(maxLen, fifoCount) whole
BytesToReadField(v) == v

\* new_imu_data_ = (data_buf_[0] & RAW_DATA_RDY_INT_)
DataReady_Always(status) == TRUE
DataReady(status) == BitAnd(status, RAW_DATA_RDY_INT_) # 0

\* cnt * scale * sign * k, as the numerator over 32767.5 and the constant's name
Scaled(cnt, scale, sign, k) == [n |-> cnt * scale * sign, k |-> k]

\* (cnt - sub) / TEMP_SCALE_ + off
Temperature(cnt, sub, off) == [n |-> cnt - sub, off |-> off]

\* the three counts that start at byte b[i] of the code
Counts3(b, i) ==
    <<ToInt16(b[i + 1], b[i + 2]), ToInt16(b[i + 3], b[i + 4]), ToInt16(b[i + 5], b[i + 6])>>

\* "Unpack the buffer" of Read and Read(float*)
Unpack(d) ==
    [d EXCEPT !.accel_cnts_ = Counts3(d.data_buf_, 1),
              !.temp_cnts_ = ToInt16(d.data_buf_[8], d.data_buf_[9]),
              !.gyro_cnts_ = Counts3(d.data_buf_, 9)]

\* "Convert to float values and rotate the accel / gyro axis"
Rotate_Unswapped(cnts, scale, k) ==
    <<Scaled(cnts[1], scale, 1, k), Scaled(cnts[2], scale, 1, k),
      Scaled(cnts[3], scale, -1, k)>>
Rotate(cnts, scale, k) ==
    <<Scaled(cnts[2], scale, 1, k), Scaled(cnts[1], scale, 1, k),
      Scaled(cnts[3], scale, -1, k)>>

Convert(d, sub, off) ==
    [d EXCEPT !.accel_ = Rotate(d.accel_cnts_, d.accel_scale_, "G_MPS2_"),
              !.temp_ = Temperature(d.temp_cnts_, sub, off),
              !.gyro_ = Rotate(d.gyro_cnts_, d.gyro_scale_, "DEG2RAD_")]

\* lines 278-282: the frame stored by the transport, the ready bit tested;
\* ret tells whether the method goes on to decode
FrameReady(d, ops, ready) == Res([d EXCEPT !.new_imu_data_ = ready], ops, ready)

\* lines 275-277, d0 the object with the flag cleared, ops the log with the read
FrameRead(d0, ops, frame) ==
    IF ~LastOk(ops) THEN Res(d0, ops, FALSE)
    ELSE FrameReady([d0 EXCEPT !.data_buf_ = frame], ops, DataReady(frame[1]))

\* lines 272-282, the same in the three read methods
ReadFrame(d, fail, frame) ==
    FrameRead([d EXCEPT !.new_imu_data_ = FALSE],
              ReadRegisters(<<>>, fail, "INT_STATUS_", DATA_BUF_LEN, frame), frame)

NoOut == [i \in {} |-> 0]

\* the result of a call together with what it stored through output pointers
ResOut(r, o) == [d |-> r.d, ops |-> r.ops, ret |-> r.ret, out |-> o]

\* lines 283-300, r the result of ReadFrame
ReadDecode(r) ==
    IF ~r.ret THEN ResOut(r, NoOut)
    ELSE ResOut(Res(Convert(Unpack(r.d), 0, 35), r.ops, TRUE), NoOut)

Read(d, fail, frame) == ReadDecode(ReadFrame(d, fail, frame))

\* lines 333-341: the values stored in the caller's array, by index
Values(a, g, t9, t7) ==
    (0 :> a[1]) @@ (1 :> a[2]) @@ (2 :> a[3]) @@ (9 :> t9) @@
    (3 :> g[1]) @@ (4 :> g[2]) @@ (5 :> g[3]) @@ (7 :> t7)

\* lines 333-343, d the object after lines 315-331
ValuesStore(d, ops) ==
    ResOut(Res(d, ops, TRUE),
           Values(Rotate(d.accel_cnts_, d.accel_scale_, "ONE"),
                  Rotate(d.gyro_cnts_, d.gyro_scale_, "ONE"),
                  Temperature(d.temp_cnts_, 21, 21), d.temp_))

\* lines 315-343, r the result of ReadFrame
ValuesDecode(r) ==
    IF ~r.ret THEN ResOut(r, NoOut)
    ELSE ValuesStore(Convert(Unpack(r.d), 21, 21), r.ops)

\* Read(float * values)
ReadValues(d, fail, frame) == ValuesDecode(ReadFrame(d, fail, frame))

\* lines 361-369: the counts stored in the caller's array, by index
RawValues_Remapped(a, t, g) ==
    (0 :> a[2]) @@ (1 :> a[1]) @@ (2 :> 0 - a[3]) @@ (6 :> t) @@
    (3 :> g[2]) @@ (4 :> g[1]) @@ (5 :> 0 - g[3])
RawValues(a, t, g) ==
    (0 :> a[1]) @@ (1 :> a[2]) @@ (2 :> a[3]) @@ (6 :> t) @@
    (3 :> g[1]) @@ (4 :> g[2]) @@ (5 :> g[3])

\* lines 359-372, r the result of ReadFrame
RawDecode(r) ==
    IF ~r.ret THEN ResOut(r, NoOut)
    ELSE ResOut(r, RawValues(Counts3(r.d.data_buf_, 1),
                             ToInt16(r.d.data_buf_[8], r.d.data_buf_[9]),
                             Counts3(r.d.data_buf_, 9)))

Read_raw(d, fail, frame) == RawDecode(ReadFrame(d, fail, frame))

(***************************************************************************)
(* FIFO.                                                                   *)
(***************************************************************************)
\* if (fifo_count_ > 0)
FifoHasData_OrEmpty(count) == count >= 0
FifoHasData(count) == count > 0

\* bytes_to_read_: the smaller of the caller's length and the FIFO count
BytesToRead(len, count) == IF len < count THEN len ELSE count

\* data_buf_[0] and data_buf_[1] overwritten by a register read
Store1(buf, b0) == [buf EXCEPT ![1] = b0]
Store2(buf, b0, b1) == [buf EXCEPT ![1] = b0, ![2] = b1]

\* lines 396-399, ops the log with the burst read; out is the number of
\* bytes the transport stored in data
FifoReturn(d, ops) ==
    IF ~LastOk(ops) THEN ResOut(Res(d, ops, -1), NoOut)
    ELSE ResOut(Res(d, ops, AsInt16(d.bytes_to_read_)), ops[Len(ops)].val :> "bytes")

\* line 396, d holding bytes_to_read_
FifoBurst(d, ops, fail) ==
    FifoReturn(d, ReadFifoBurst(ops, fail, "FIFO_R_W_", d.bytes_to_read_))

\* lines 390-402, d holding fifo_count_
FifoDrain(d, ops, fail, len) ==
    IF ~FifoHasData(d.fifo_count_) THEN ResOut(Res(d, ops, 0), NoOut)
    ELSE FifoBurst([d EXCEPT !.bytes_to_read_ =
                                 BytesToReadField(BytesToRead(len, d.fifo_count_))],
                   ops, fail)

\* lines 386-389, ops the log with the count read
FifoCount(d, ops, fail, len, hi, lo) ==
    IF ~LastOk(ops) THEN ResOut(Res(d, ops, -1), NoOut)
    ELSE FifoDrain([d EXCEPT !.data_buf_ = Store2(d.data_buf_, hi, lo),
                             !.fifo_count_ = FifoCountField(hi * 256 + lo)], ops, fail, len)

\* fifo_overflowed_ = (data_buf_[0] & FIFO_OFLOW_INT_)
Overflowed_Never(status) == FALSE
Overflowed(status) == BitAnd(status, FIFO_OFLOW_INT_) # 0

\* lines 380-386, ops the log with the status read
FifoStatus(d, ops, fail, len, status, hi, lo) ==
    IF ~LastOk(ops) THEN ResOut(Res(d, ops, -1), NoOut)
    ELSE FifoCount([d EXCEPT !.data_buf_ = Store1(d.data_buf_, status),
                             !.fifo_overflowed_ = Overflowed(status)],
                   ReadRegisters(ops, fail, "FIFO_COUNT_H_", 2, <<hi, lo>>), fail, len, hi, lo)

\* ReadFifo(data, len): isnull tells that data is a null pointer; status and
\* <<hi, lo>> are the bytes the transport delivers for the interrupt-status
\* and the FIFO count reads
ReadFifo(d, fail, isnull, len, status, hi, lo) ==
    IF isnull THEN ResOut(Res(d, <<>>, -1), NoOut)
    ELSE FifoStatus(d, ReadRegisters(<<>>, fail, "INT_STATUS_", 1, <<status>>),
                    fail, len, status, hi, lo)

\* data[i] of a caller buffer holding Len(data) bytes; a read at or past the
\* end of the buffer yields whatever lies there, given by tail
ByteAt(data, tail, i) ==
    IF i < Len(data) THEN data[i + 1] ELSE tail[(i % FIFO_RECORD_LEN) + 1]

\* the 12 bytes data[i] .. data[i + 11]
RecordAt(data, tail, i) == [k \in 1..FIFO_RECORD_LEN |-> ByteAt(data, tail, i + k - 1)]

\* lines 413-418, b the bytes of the record
FifoUnpack(d, b) ==
    [d EXCEPT !.accel_cnts_ = Counts3(b, 0), !.gyro_cnts_ = Counts3(b, 6)]

\* lines 420-425: what is stored at index j of the six output arrays, and
\* the largest index of data that was read for it
FifoStore(a, g, i, j) ==
    [j |-> j, ax |-> a[1], ay |-> a[2], az |-> a[3],
     gx |-> g[1], gy |-> g[2], gz |-> g[3], last_read |-> i + 11]

FifoOut(d, i, j) ==
    FifoStore(Rotate(d.accel_cnts_, d.accel_scale_, "G_MPS2_"),
              Rotate(d.gyro_cnts_, d.gyro_scale_, "DEG2RAD_"), i, j)

\* the loop of ProcessFifoData from index i, record j; acc collects the
\* records stored
RECURSIVE FifoLoop(_, _, _, _, _, _, _)
FifoNext(d, data, tail, len, i, j, acc) ==
    FifoLoop(d, data, tail, len, i + FIFO_RECORD_LEN, j + 1, Append(acc, FifoOut(d, i, j)))

FifoLoop(d, data, tail, len, i, j, acc) ==
    IF ~(i < len) THEN [d |-> d, j |-> j, acc |-> acc]
    ELSE FifoNext(FifoUnpack(d, RecordAt(data, tail, i)), data, tail, len, i, j, acc)

\* line 428, l the result of the loop
FifoDecoded(l) == ResOut(Res(l.d, <<>>, AsInt16(l.j)), l.acc)

\* ProcessFifoData(data, len, gx, gy, gz, ax, ay, az): isnull tells that
\* one of the pointers is null
ProcessFifoData(d, isnull, data, tail, len) ==
    IF isnull THEN ResOut(Res(d, <<>>, -1), <<>>)
    ELSE FifoDecoded(FifoLoop(d, data, tail, len, 0, 0, <<>>))

(***************************************************************************)
(* The filter registers of the device as the driver's writes leave them.   *)
(***************************************************************************)
FilterRegs == {"ACCEL_CONFIG2_", "CONFIG_"}

\* no successful write yet
NONE == "NONE"

\* the positions of the log at which reg was written successfully
WritesTo(ops, reg) == {i \in 1..Len(ops) : ops[i].op = "W" /\ ops[i].reg = reg /\ ops[i].ok}

Max(S) == CHOOSE x \in S : \A y \in S : y <= x

\* the value of reg after the log: that of the last successful write, a
\* failed write leaving the register as it was
LastWritten(old, ops, S) == IF S = {} THEN old ELSE ops[Max(S)].val

Latch(w, ops) == [reg \in FilterRegs |-> LastWritten(w[reg], ops, WritesTo(ops, reg))]

(***************************************************************************)
(* The object after construction.  The configuration fields hold some      *)
(* enumerator, the requested and the active value alike; nothing has been  *)
(* read yet.                                                               *)
(***************************************************************************)
Zero3 == <<0, 0, 0>>

InitMpu(mode, ar, gr, bw) ==
    [mag_mode_ |-> mode, who_am_i_ |-> 0,
     requested_accel_range_ |-> ar, requested_accel_scale_ |-> AccelScale(ar),
     accel_range_ |-> ar, accel_scale_ |-> AccelScale(ar),
     requested_gyro_range_ |-> gr, requested_gyro_scale_ |-> GyroScale(gr),
     gyro_range_ |-> gr, gyro_scale_ |-> GyroScale(gr),
     requested_dlpf_ |-> bw, dlpf_bandwidth_ |-> bw, srd_ |-> 0,
     new_imu_data_ |-> FALSE, data_buf_ |-> [i \in 1..DATA_BUF_LEN |-> 0],
     accel_cnts_ |-> Zero3, gyro_cnts_ |-> Zero3, temp_cnts_ |-> 0,
     accel_ |-> Rotate(Zero3, AccelScale(ar), "G_MPS2_"),
     gyro_ |-> Rotate(Zero3, GyroScale(gr), "DEG2RAD_"),
     temp_ |-> Temperature(0, 0, 0),
     fifo_overflowed_ |-> FALSE, fifo_count_ |-> 0, bytes_to_read_ |-> 0]

InitRanges == {<<ACCEL_RANGE_2G, GYRO_RANGE_250DPS>>}

Init ==
    /\ \E r \in InitRanges : mpu = InitMpu(MAG_PASSTHROUGH, r[1], r[2], DLPF_BANDWIDTH_5HZ)
    /\ bus = <<>>
    /\ ret = TRUE
    /\ call = [name |-> "Config", args |-> <<>>]
    /\ out = NoOut
    /\ written = [reg \in FilterRegs |-> NONE]

(***************************************************************************)
(* Inputs of the sample and FIFO methods.                                  *)
(***************************************************************************)
StatusBytes == {0, 1, 17, 254}

\* accel x y z, temperature, gyro x y z: 1, -2, -32768, 3400, 32767, 256, -1
PayloadA == <<0, 1, 255, 254, 128, 0, 13, 72, 127, 255, 1, 0, 255, 255>>
\* 4660, -21829, 5, -340, -256, 128, 32767
PayloadB == <<18, 52, 170, 187, 0, 5, 254, 172, 255, 0, 0, 128, 127, 255>>
Payloads == {PayloadA, PayloadB}

Frames == {<<s>> \o p : s \in StatusBytes, p \in Payloads}

\* FIFO records: accel x y z, gyro x y z
RecordA == <<0, 1, 255, 254, 128, 0, 127, 255, 1, 0, 255, 255>>
RecordB == <<18, 52, 170, 187, 0, 5, 255, 0, 0, 128, 127, 255>>
FifoRecords == {RecordA, RecordB}

\* buffer lengths given to ProcessFifoData
ProcessLens == {0, 11, 12, 13, 24, 25, 36}
\* the first len bytes of three records
FifoBuffer(r1, r2, len) == SubSeq(r1 \o r2 \o r1, 1, len)

\* lengths given to ReadFifo and the count bytes the hardware reports
DrainLens == {0, 12, 300}
CountHi == {0, 1, 128}
CountLo == {0, 44}
\* interrupt-status bytes delivered to ReadFifo
FifoStatusBytes == {1, 16}
\* interrupt-status bytes delivered to a poll: the overflow bit alone, every
\* bit but the overflow bit
PollStatusBytes == {16, 239}

(***************************************************************************)
(* Actions: one per public method.                                         *)
(***************************************************************************)
DoBegin ==
    \E fail \in FailSets(MaxBusOps), mode \in MagModes, whoami \in WhoAmIBytes :
        \E r \in {Begin(mpu, fail, mode, whoami)} :
           /\ mpu' = r.d
           /\ bus' = r.ops
           /\ ret' = r.ret
           /\ call' = [name |-> "Begin", args |-> <<mode>>]
           /\ out' = NoOut
           /\ written' = Latch(written, r.ops)

DoConfigAccelRange ==
    \E fail \in FailSets(1), range \in AccelRangeArgs :
        \E r \in {ConfigAccelRange(mpu, <<>>, fail, range)} :
           /\ mpu' = r.d
           /\ bus' = r.ops
           /\ ret' = r.ret
           /\ call' = [name |-> "ConfigAccelRange", args |-> <<range>>]
           /\ out' = NoOut
           /\ written' = Latch(written, r.ops)

DoConfigGyroRange ==
    \E fail \in FailSets(1), range \in GyroRangeArgs :
        \E r \in {ConfigGyroRange(mpu, <<>>, fail, range)} :
           /\ mpu' = r.d
           /\ bus' = r.ops
           /\ ret' = r.ret
           /\ call' = [name |-> "ConfigGyroRange", args |-> <<range>>]
           /\ out' = NoOut
           /\ written' = Latch(written, r.ops)

DoConfigDlpfBandwidth ==
    \E fail \in FailSets(2), dlpf \in DlpfArgs :
        \E r \in {ConfigDlpfBandwidth(mpu, <<>>, fail, dlpf)} :
           /\ mpu' = r.d
           /\ bus' = r.ops
           /\ ret' = r.ret
           /\ call' = [name |-> "ConfigDlpfBandwidth", args |-> <<dlpf>>]
           /\ out' = NoOut
           /\ written' = Latch(written, r.ops)

\* ConfigDlpfBandwidth with each of the six enumerators
DoConfigDlpfBandwidthEach ==
    \E fail \in FailSets(2), dlpf \in DlpfBandwidths :
        \E r \in {ConfigDlpfBandwidth(mpu, <<>>, fail, dlpf)} :
           /\ mpu' = r.d
           /\ bus' = r.ops
           /\ ret' = r.ret
           /\ call' = [name |-> "ConfigDlpfBandwidth", args |-> <<dlpf>>]
           /\ out' = NoOut
           /\ written' = Latch(written, r.ops)

DoConfigSrd ==
    \E fail \in FailSets(1), srd \in SrdArgs :
        \E r \in {ConfigSrd(mpu, <<>>, fail, srd)} :
           /\ mpu' = r.d
           /\ bus' = r.ops
           /\ ret' = r.ret
           /\ call' = [name |-> "ConfigSrd", args |-> <<srd>>]
           /\ out' = NoOut
           /\ written' = Latch(written, r.ops)

DoEnableDrdyInt ==
    \E fail \in FailSets(2) :
        \E r \in {EnableDrdyInt(mpu, fail)} :
           /\ mpu' = r.d
           /\ bus' = r.ops
           /\ ret' = r.ret
           /\ call' = [name |-> "EnableDrdyInt", args |-> <<>>]
           /\ out' = NoOut
           /\ written' = Latch(written, r.ops)

DoDisableDrdyInt ==
    \E fail \in FailSets(1) :
        \E r \in {DisableDrdyInt(mpu, fail)} :
           /\ mpu' = r.d
           /\ bus' = r.ops
           /\ ret' = r.ret
           /\ call' = [name |-> "DisableDrdyInt", args |-> <<>>]
           /\ out' = NoOut
           /\ written' = Latch(written, r.ops)

DoEnableFifo ==
    \E fail \in FailSets(2) :
        \E r \in {EnableFifo(mpu, fail)} :
           /\ mpu' = r.d
           /\ bus' = r.ops
           /\ ret' = r.ret
           /\ call' = [name |-> "EnableFifo", args |-> <<>>]
           /\ out' = NoOut
           /\ written' = Latch(written, r.ops)

DoDisableFifo ==
    \E fail \in FailSets(2) :
        \E r \in {DisableFifo(mpu, fail)} :
           /\ mpu' = r.d
           /\ bus' = r.ops
           /\ ret' = r.ret
           /\ call' = [name |-> "DisableFifo", args |-> <<>>]
           /\ out' = NoOut
           /\ written' = Latch(written, r.ops)

DoRead ==
    \E fail \in FailSets(1), frame \in Frames :
        \E r \in {Read(mpu, fail, frame)} :
           /\ mpu' = r.d
           /\ bus' = r.ops
           /\ ret' = r.ret
           /\ call' = [name |-> "Read", args |-> <<>>]
           /\ out' = r.out
           /\ written' = Latch(written, r.ops)

DoReadValues ==
    \E fail \in FailSets(1), frame \in Frames :
        \E r \in {ReadValues(mpu, fail, frame)} :
           /\ mpu' = r.d
           /\ bus' = r.ops
           /\ ret' = r.ret
           /\ call' = [name |-> "ReadValues", args |-> <<>>]
           /\ out' = r.out
           /\ written' = Latch(written, r.ops)

DoRead_raw ==
    \E fail \in FailSets(1), frame \in Frames :
        \E r \in {Read_raw(mpu, fail, frame)} :
           /\ mpu' = r.d
           /\ bus' = r.ops
           /\ ret' = r.ret
           /\ call' = [name |-> "Read_raw", args |-> <<>>]
           /\ out' = r.out
           /\ written' = Latch(written, r.ops)

DoReadFifo ==
    \E fail \in FailSets(3), isnull \in BOOLEAN, len \in DrainLens,
       status \in FifoStatusBytes, hi \in CountHi, lo \in CountLo :
        \E r \in {ReadFifo(mpu, fail, isnull, len, status, hi, lo)} :
           /\ mpu' = r.d
           /\ bus' = r.ops
           /\ ret' = r.ret
           /\ call' = [name |-> "ReadFifo", args |-> <<isnull, len>>]
           /\ out' = r.out
           /\ written' = Latch(written, r.ops)

\* ReadFifo polled with a buffer of one record, the FIFO holding less than
\* 256 bytes
DoReadFifoPoll ==
    \E fail \in FailSets(3), isnull \in BOOLEAN, status \in PollStatusBytes, lo \in CountLo :
        \E r \in {ReadFifo(mpu, fail, isnull, FIFO_RECORD_LEN, status, 0, lo)} :
           /\ mpu' = r.d
           /\ bus' = r.ops
           /\ ret' = r.ret
           /\ call' = [name |-> "ReadFifo", args |-> <<isnull, FIFO_RECORD_LEN>>]
           /\ out' = r.out
           /\ written' = Latch(written, r.ops)

DoProcessFifoData ==
    \E isnull \in BOOLEAN, len \in ProcessLens, r1 \in FifoRecords, r2 \in FifoRecords,
       tail \in FifoRecords :
        \E r \in {ProcessFifoData(mpu, isnull, FifoBuffer(r1, r2, len), tail, len)} :
           /\ mpu' = r.d
           /\ bus' = r.ops
           /\ ret' = r.ret
           /\ call' = [name |-> "ProcessFifoData", args |-> <<isnull, len, FifoBuffer(r1, r2, len)>>]
           /\ out' = r.out
           /\ written' = Latch(written, r.ops)

\* configuration: Begin and the four Config methods
NextConfig ==
    \/ DoBegin
    \/ DoConfigAccelRange
    \/ DoConfigGyroRange
    \/ DoConfigDlpfBandwidth
    \/ DoConfigSrd

SpecConfig == Init /\ [][NextConfig]_vars

\* single samples
NextSample ==
    \/ DoRead
    \/ DoReadValues
    \/ DoRead_raw

SpecSample == Init /\ [][NextSample]_vars

\* draining the FIFO
NextDrain == DoReadFifo

SpecDrain == Init /\ [][NextDrain]_vars

\* decoding drained FIFO bytes
NextDecode == DoProcessFifoData

SpecDecode == Init /\ [][NextDecode]_vars

\* selecting the filter bandwidth
NextBandwidth == DoConfigDlpfBandwidthEach

SpecBandwidth == Init /\ [][NextBandwidth]_vars

\* the filter bandwidth: Begin and ConfigDlpfBandwidth
NextFilter ==
    \/ DoBegin
    \/ DoConfigDlpfBandwidthEach

SpecFilter == Init /\ [][NextFilter]_vars

\* decoding counts: single samples and FIFO records
NextCounts ==
    \/ DoRead
    \/ DoProcessFifoData

SpecCounts == Init /\ [][NextCounts]_vars

\* Begin and the interrupt and FIFO switches
NextSwitch ==
    \/ DoBegin
    \/ DoEnableDrdyInt
    \/ DoDisableDrdyInt
    \/ DoEnableFifo
    \/ DoDisableFifo

SpecSwitch == Init /\ [][NextSwitch]_vars

\* the operations other than Begin that use the transport
NextOps ==
    \/ DoEnableDrdyInt
    \/ DoDisableDrdyInt
    \/ DoEnableFifo
    \/ DoDisableFifo
    \/ DoConfigDlpfBandwidth
    \/ DoConfigSrd
    \/ DoRead
    \/ DoReadFifoPoll

SpecOps == Init /\ [][NextOps]_vars

Next ==
    \/ NextConfig
    \/ DoReadFifoPoll
    \/ DoConfigDlpfBandwidthEach
    \/ DoEnableDrdyInt
    \/ DoDisableDrdyInt
    \/ DoEnableFifo
    \/ DoDisableFifo
    \/ NextSample
    \/ NextDrain
    \/ NextDecode

Spec == Init /\ [][Next]_vars

(***************************************************************************)
(* Properties.                                                             *)
(***************************************************************************)
IsRegOp(o) == o.op \in {"W", "R", "F"}

\* the log holds a successful write of val to reg
WroteOk(ops, reg, val) ==
    \E i \in 1..Len(ops) : ops[i].op = "W" /\ ops[i].reg = reg /\ ops[i].ok /\ ops[i].val = val

\* the log holds a failed write to reg
WriteFailed(ops, reg) ==
    \E i \in 1..Len(ops) : ops[i].op = "W" /\ ops[i].reg = reg /\ ~ops[i].ok

ReadNames == {"Read", "ReadValues", "Read_raw"}

Min(a, b) == IF a < b THEN a ELSE b

\* C1: in Begin, a register operation that fails is the last operation Begin
\* issues, and Begin returns false.
C1_BeginAbortsAtFirstFailure ==
    call.name = "Begin" =>
        \A i \in 1..Len(bus) :
            (IsRegOp(bus[i]) /\ ~bus[i].ok) => (ret = FALSE /\ i = Len(bus))

\* C2: ProcessFifoData with non-null pointers returns floor(len / 12), stores
\* that many records and reads no byte of data at an index >= len.
C2_DecodesFloorRecords ==
    (call.name = "ProcessFifoData" /\ ~call.args[1]) =>
        /\ ret = call.args[2] \div FIFO_RECORD_LEN
        /\ Len(out) = call.args[2] \div FIFO_RECORD_LEN
        /\ \A k \in 1..Len(out) : out[k].last_read < call.args[2]

\* C3: a positive value returned by ReadFifo is the number of bytes the burst
\* read on the FIFO data register asked the transport for.
C3_ReturnsBytesDrained ==
    (call.name = "ReadFifo" /\ ret > 0) =>
        \E i \in 1..Len(bus) :
            bus[i].op = "F" /\ bus[i].reg = "FIFO_R_W_" /\ bus[i].val = ret

\* C4: an active configuration value (accel range and scale, gyro range and
\* scale, filter bandwidth, sample-rate divider) changes only in a call in
\* which every register write of the new value succeeded, and a call in which
\* a write of a field failed leaves the active value of that field as it was.
C4_ActiveOnlyAfterWrite ==
    [][/\ (<<mpu.accel_range_, mpu.accel_scale_>> # <<mpu'.accel_range_, mpu'.accel_scale_>>)
            => /\ WroteOk(bus', "ACCEL_CONFIG_", mpu'.accel_range_)
               /\ mpu'.accel_scale_ = AccelScale(mpu'.accel_range_)
       /\ (<<mpu.gyro_range_, mpu.gyro_scale_>> # <<mpu'.gyro_range_, mpu'.gyro_scale_>>)
            => /\ WroteOk(bus', "GYRO_CONFIG_", mpu'.gyro_range_)
               /\ mpu'.gyro_scale_ = GyroScale(mpu'.gyro_range_)
       /\ (mpu.dlpf_bandwidth_ # mpu'.dlpf_bandwidth_)
            => /\ WroteOk(bus', "ACCEL_CONFIG2_", mpu'.dlpf_bandwidth_)
               /\ WroteOk(bus', "CONFIG_", mpu'.dlpf_bandwidth_)
       /\ (mpu.srd_ # mpu'.srd_) => WroteOk(bus', "SMPLRT_DIV_", mpu'.srd_)
       /\ WriteFailed(bus', "ACCEL_CONFIG_")
            => <<mpu.accel_range_, mpu.accel_scale_>> = <<mpu'.accel_range_, mpu'.accel_scale_>>
       /\ WriteFailed(bus', "GYRO_CONFIG_")
            => <<mpu.gyro_range_, mpu.gyro_scale_>> = <<mpu'.gyro_range_, mpu'.gyro_scale_>>
       /\ (WriteFailed(bus', "ACCEL_CONFIG2_") \/ WriteFailed(bus', "CONFIG_"))
            => mpu.dlpf_bandwidth_ = mpu'.dlpf_bandwidth_
       /\ WriteFailed(bus', "SMPLRT_DIV_") => mpu.srd_ = mpu'.srd_
      ]_vars

\* a ConfigAccelRange call whose write failed: the requested range is the
\* argument, the active range is still the other one
C4_Witness ==
    /\ call.name = "ConfigAccelRange"
    /\ WriteFailed(bus, "ACCEL_CONFIG_")
    /\ mpu.requested_accel_range_ = ACCEL_RANGE_2G
    /\ mpu.accel_range_ = ACCEL_RANGE_16G

\* C5: a Begin call that returns false leaves mag_mode_ as it was.
C5_ModeKeptOnFailure ==
    [][(call'.name = "Begin" /\ ret' = FALSE) => mpu'.mag_mode_ = mpu.mag_mode_]_vars

\* what the caller sees of a read method: the value returned, the new-data
\* flag, the values stored through the output pointer
ReadOutcome(r) == <<r.ret, r.d.new_imu_data_, r.out>>

\* the outcome of the read method called from object d with a failing transport
FailedReadOutcome(name, d) ==
    CASE name = "Read" -> ReadOutcome(Read(d, {1}, d.data_buf_))
      [] name = "ReadValues" -> ReadOutcome(ReadValues(d, {1}, d.data_buf_))
      [] name = "Read_raw" -> ReadOutcome(Read_raw(d, {1}, d.data_buf_))

ReadyBitClear(status) == BitAnd(status, RAW_DATA_RDY_INT_) = 0

\* the call just made is a read method whose frame arrived with the ready bit clear
NoNewData(c, ops, d) ==
    c.name \in ReadNames /\ ops[1].ok /\ ReadyBitClear(d.data_buf_[1])

\* C6: the outcome of a read method whose frame arrives with the ready bit
\* clear differs from the outcome the same call has when the transport fails.
C6_NoDataDiffersFromFailure ==
    [][NoNewData(call', bus', mpu')
         => <<ret', mpu'.new_imu_data_, out'>> # FailedReadOutcome(call'.name, mpu)]_vars

\* the method named accepts its argument
ArgValid(c) ==
    CASE c.name = "ConfigAccelRange" -> c.args[1] \in AccelRanges
      [] c.name = "ConfigGyroRange" -> c.args[1] \in GyroRanges
      [] c.name = "ConfigDlpfBandwidth" -> c.args[1] \in DlpfBandwidths
      [] OTHER -> TRUE

\* C7: ConfigAccelRange, ConfigGyroRange and ConfigDlpfBandwidth called with
\* a value that is no enumerator return false, issue no transport operation
\* and leave every member of the object, requested and active, unchanged.
C7_InvalidArgumentRejected ==
    [][~ArgValid(call') => (ret' = FALSE /\ bus' = <<>> /\ mpu' = mpu)]_vars

C7_Witness ==
    /\ call.name = "ConfigDlpfBandwidth"
    /\ call.args[1] = INVALID_ENUM
    /\ ret = FALSE
    /\ mpu.dlpf_bandwidth_ = DLPF_BANDWIDTH_184HZ

\* C8: a read method whose frame has the ready bit clear returns false,
\* stores nothing for the caller and changes no member but the new-data flag,
\* which is false afterwards, and the raw frame buffer.
C8_NoNewDataKeepsDecoded ==
    [][NoNewData(call', bus', mpu')
         => /\ ret' = FALSE
            /\ mpu'.new_imu_data_ = FALSE
            /\ out' = NoOut
            /\ [mpu' EXCEPT !.data_buf_ = mpu.data_buf_,
                            !.new_imu_data_ = mpu.new_imu_data_] = mpu]_vars

\* a frame without the ready bit arrived after an earlier frame was decoded,
\* and its payload differs from the decoded counts
C8_Witness ==
    /\ NoNewData(call, bus, mpu)
    /\ mpu.accel_cnts_ # Zero3
    /\ ToInt16(mpu.data_buf_[2], mpu.data_buf_[3]) # mpu.accel_cnts_[1]

\* the ReadFifo call just made had a buffer, and its status and count reads
\* succeeded
Polled ==
    /\ call.name = "ReadFifo"
    /\ ~call.args[1]
    /\ Len(bus) >= 2
    /\ bus[1].ok /\ bus[2].ok

\* the burst reads of the log
Bursts(ops) == {i \in 1..Len(ops) : ops[i].op = "F"}

\* the FIFO byte count the hardware reported in the count read of the log
HardwareCount == bus[2].data[1] * 256 + bus[2].data[2]

\* C9: with a buffer, a successful transport and a positive hardware FIFO
\* count, ReadFifo returns min(len, count), which is len when the count is
\* larger, never more than len, and asks the transport for no more than
\* len bytes.
C9_DrainCappedByLen ==
    (Polled /\ HardwareCount > 0 /\ \A i \in 1..Len(bus) : bus[i].ok) =>
        /\ ret = Min(call.args[2], HardwareCount)
        /\ ret <= call.args[2]
        /\ HardwareCount > call.args[2] => ret = call.args[2]
        /\ \A i \in Bursts(bus) : bus[i].val <= call.args[2]

\* C10: with a buffer, successful status and count reads and a FIFO count of
\* zero, ReadFifo returns 0 and issues no burst read; with a null buffer it
\* returns -1 and issues no transport operation.
C10_EmptyFifoAndNullBuffer ==
    /\ (Polled /\ mpu.fifo_count_ = 0) => (ret = 0 /\ Bursts(bus) = {} /\ Len(bus) = 2)
    /\ (call.name = "ReadFifo" /\ call.args[1]) => (ret = -1 /\ bus = <<>>)

C10_Witness ==
    /\ Polled
    /\ mpu.fifo_count_ = 0
    /\ call.args[2] = 300
    /\ ret = 0

\* the operations a Begin(mode) that runs to its end issues after starting
\* the transport, each as <<operation, register, value>>
BeginPlan(mode) ==
    <<<<"W", "PWR_MGMNT_1_", "H_RESET_">>,
      <<"D", "-", SETTLE_MS>>,
      <<"W", "PWR_MGMNT_1_", "CLKSEL_PLL_">>,
      <<"R", "WHOAMI_", 1>>>>
    \o (IF mode = MAG_PASSTHROUGH THEN <<<<"W", "INT_PIN_CFG_", "I2C_BYPASS_EN_">>>> ELSE <<>>)
    \o <<<<"W", "PWR_MGMNT_1_", "CLKSEL_PLL_">>,
         <<"W", "ACCEL_CONFIG_", ACCEL_RANGE_16G>>,
         <<"W", "GYRO_CONFIG_", GYRO_RANGE_2000DPS>>,
         <<"W", "ACCEL_CONFIG2_", DLPF_BANDWIDTH_184HZ>>,
         <<"W", "CONFIG_", DLPF_BANDWIDTH_184HZ>>,
         <<"W", "SMPLRT_DIV_", 0>>>>

\* the log entry o is the operation step
IsStep(o, step) == o.op = step[1] /\ o.reg = step[2] /\ o.val = step[3]

\* the log, after the start of the transport, is exactly plan
Follows(ops, plan) ==
    /\ Len(ops) = Len(plan) + 1
    /\ ops[1].op = "I"
    /\ \A i \in 1..Len(plan) : IsStep(ops[i + 1], plan[i])

\* the active configuration is the default one
DefaultsActive(d) ==
    /\ d.accel_range_ = ACCEL_RANGE_16G /\ d.accel_scale_ = AccelScale(ACCEL_RANGE_16G)
    /\ d.gyro_range_ = GYRO_RANGE_2000DPS /\ d.gyro_scale_ = GyroScale(GYRO_RANGE_2000DPS)
    /\ d.dlpf_bandwidth_ = DLPF_BANDWIDTH_184HZ
    /\ d.srd_ = 0

\* C11: a Begin(mode) that returns true has issued, after starting the
\* transport, exactly: reset write, settle delay, clock-source write,
\* identity read, the pass-through write if and only if mode is
\* MAG_PASSTHROUGH, clock-source write, accel-range, gyro-range, the two
\* filter-bandwidth writes and the divider write, in this order; and the
\* active configuration is 16G, 2000DPS, 184Hz, divider 0.
C11_BeginOrderAndDefaults ==
    (call.name = "Begin" /\ ret = TRUE) =>
        /\ Follows(bus, BeginPlan(call.args[1]))
        /\ DefaultsActive(mpu)

\* a Begin in fused mode ran to its end: no pass-through write among its
\* ten register operations
C11_Witness ==
    /\ call.name = "Begin"
    /\ call.args[1] = MAG_FUSED
    /\ ret = TRUE
    /\ Len(bus) = 11
    /\ \A i \in 1..Len(bus) : bus[i].ok

\* the positions of the log at which the identity register was read and
\* the device answered
IdentityReads(ops) ==
    {i \in 1..Len(ops) : ops[i].op = "R" /\ ops[i].reg = "WHOAMI_" /\ ops[i].ok}

\* the active configuration values of the object: ranges and their scales,
\* filter bandwidth, sample-rate divider and interconnect mode
ActiveConfig(d) ==
    <<d.accel_range_, d.accel_scale_, d.gyro_range_, d.gyro_scale_, d.dlpf_bandwidth_, d.srd_,
      d.mag_mode_>>

\* C12: a Begin whose identity read delivers a byte other than
\* WHOAMI_MPU9150_ returns false, issues no operation after that read and
\* leaves every active configuration value as it was; a Begin that returns
\* true has read the identity byte WHOAMI_MPU9150_.
C12_IdentityMismatchStops ==
    [][call'.name = "Begin" =>
        /\ \A i \in IdentityReads(bus') :
              bus'[i].data # <<WHOAMI_MPU9150_>> =>
                  /\ ret' = FALSE
                  /\ i = Len(bus')
                  /\ ActiveConfig(mpu') = ActiveConfig(mpu)
        /\ ret' = TRUE =>
              /\ \E i \in IdentityReads(bus') : bus'[i].data = <<WHOAMI_MPU9150_>>
              /\ mpu'.who_am_i_ = WHOAMI_MPU9150_
      ]_vars

\* C13: a ConfigDlpfBandwidth call that returns true, whichever of the six
\* enumerators it was given, has issued exactly two writes, the first to
\* ACCEL_CONFIG2_ and the second to CONFIG_, both of the enumerator passed,
\* and the active bandwidth is that enumerator.
C13_SameSelectorBothRegisters ==
    (call.name = "ConfigDlpfBandwidth" /\ ret = TRUE) =>
        /\ call.args[1] \in DlpfBandwidths
        /\ Len(bus) = 2
        /\ bus[1].op = "W" /\ bus[1].reg = "ACCEL_CONFIG2_" /\ bus[1].val = call.args[1]
        /\ bus[2].op = "W" /\ bus[2].reg = "CONFIG_" /\ bus[2].val = call.args[1]
        /\ bus[1].ok /\ bus[2].ok
        /\ mpu.dlpf_bandwidth_ = call.args[1]

\* the 41Hz enumerator selected with success: both registers hold it
C13_Witness ==
    /\ call.name = "ConfigDlpfBandwidth"
    /\ ret = TRUE
    /\ call.args[1] = DLPF_BANDWIDTH_41HZ
    /\ mpu.dlpf_bandwidth_ = DLPF_BANDWIDTH_41HZ
    /\ written = [reg \in FilterRegs |-> DLPF_BANDWIDTH_41HZ]

\* the byte pair hi, lo read as a two's complement number of 16 bits, the
\* high byte first
BigEndian16(hi, lo) ==
    IF hi * 256 + lo >= 32768 THEN hi * 256 + lo - 65536 ELSE hi * 256 + lo

\* the three counts in the six bytes that follow position p of b
RawXYZ(b, p) ==
    <<BigEndian16(b[p + 1], b[p + 2]), BigEndian16(b[p + 3], b[p + 4]),
      BigEndian16(b[p + 5], b[p + 6])>>

\* the outputs x, y, z are the raw counts remapped and scaled: x from raw y,
\* y from raw x, z from raw z negated
Remapped(x, y, z, raw, scale) ==
    /\ x.n = raw[2] * scale
    /\ y.n = raw[1] * scale
    /\ z.n = (0 - raw[3]) * scale

\* record k of the buffer decoded by ProcessFifoData lies within its length
WholeRecords(c) == 1..(c.args[2] \div FIFO_RECORD_LEN)

\* C14: after Read decoded a frame, and for every whole
\* 12-byte record ProcessFifoData decoded, each count is the big-endian
\* byte pair read as a signed 16-bit number, and the accelerometer and the
\* gyroscope outputs alike are x from the raw y count, y from the raw x
\* count, z from the negated raw z count.
C14_BigEndianCountsRemapped ==
    /\ (call.name = "Read" /\ ret = TRUE) =>
          /\ mpu.accel_cnts_ = RawXYZ(mpu.data_buf_, 1)
          /\ mpu.gyro_cnts_ = RawXYZ(mpu.data_buf_, 9)
          /\ Remapped(mpu.accel_[1], mpu.accel_[2], mpu.accel_[3],
                      RawXYZ(mpu.data_buf_, 1), mpu.accel_scale_)
          /\ Remapped(mpu.gyro_[1], mpu.gyro_[2], mpu.gyro_[3],
                      RawXYZ(mpu.data_buf_, 9), mpu.gyro_scale_)
    /\ (call.name = "ProcessFifoData" /\ ~call.args[1]) =>
          \A k \in WholeRecords(call) :
              /\ k <= Len(out)
              /\ out[k].j = k - 1
              /\ Remapped(out[k].ax, out[k].ay, out[k].az,
                          RawXYZ(call.args[3], FIFO_RECORD_LEN * (k - 1)), mpu.accel_scale_)
              /\ Remapped(out[k].gx, out[k].gy, out[k].gz,
                          RawXYZ(call.args[3], FIFO_RECORD_LEN * (k - 1) + 6), mpu.gyro_scale_)

\* two FIFO records were decoded, the first with the raw accel counts
\* 1, -2, -32768, after a frame with the same counts had been read
C14_Witness ==
    /\ call.name = "ProcessFifoData"
    /\ ret = 2
    /\ out[1].ax.n = (0 - 2) * mpu.accel_scale_
    /\ out[1].ay.n = mpu.accel_scale_
    /\ out[1].az.n = 32768 * mpu.accel_scale_
    /\ mpu.new_imu_data_
    /\ mpu.accel_[3].n = 32768 * mpu.accel_scale_

\* the overflow bit (bit 4) of an interrupt-status byte
OverflowBit(status) == (status \div 16) % 2 = 1

\* the poll logged in ops got its interrupt-status byte
StatusDelivered(ops) == ops # <<>> /\ ops[1].ok

\* C15: a ReadFifo call whose interrupt-status read succeeds leaves
\* fifo_overflowed_ equal to the overflow bit of the status byte delivered,
\* also when the count read or the burst read of the same call fails; a
\* ReadFifo call that is given a null buffer or whose status read fails, and
\* every call of another method, leave fifo_overflowed_ as it was.
C15_OverflowLatchedPerPoll ==
    [][/\ (call'.name = "ReadFifo" /\ StatusDelivered(bus'))
            => mpu'.fifo_overflowed_ = OverflowBit(bus'[1].data[1])
       /\ (call'.name = "ReadFifo" /\ ~StatusDelivered(bus'))
            => mpu'.fifo_overflowed_ = mpu.fifo_overflowed_
       /\ call'.name # "ReadFifo" => mpu'.fifo_overflowed_ = mpu.fifo_overflowed_
      ]_vars

\* a poll whose status byte had the overflow bit set and whose count read
\* failed: the flag is set
C15_Witness ==
    /\ call.name = "ReadFifo"
    /\ Len(bus) = 2
    /\ bus[1].ok /\ bus[1].data = <<16>>
    /\ ~bus[2].ok
    /\ ret = -1
    /\ mpu.fifo_overflowed_

\* the six values v of Read(float*) are the six counts raw of Read_raw
\* remapped and multiplied by the scales of object d
ScaledFromRaw(v, raw, d) ==
    /\ v[0] = Scaled(raw[1], d.accel_scale_, 1, "ONE")
    /\ v[1] = Scaled(raw[0], d.accel_scale_, 1, "ONE")
    /\ v[2] = Scaled(0 - raw[2], d.accel_scale_, 1, "ONE")
    /\ v[3] = Scaled(raw[4], d.gyro_scale_, 1, "ONE")
    /\ v[4] = Scaled(raw[3], d.gyro_scale_, 1, "ONE")
    /\ v[5] = Scaled(0 - raw[5], d.gyro_scale_, 1, "ONE")

\* what the object holds decoded
Decoded(d) == <<d.accel_cnts_, d.gyro_cnts_, d.temp_cnts_, d.accel_, d.gyro_, d.temp_>>

\* two calls in a row decoded the same frame under the same scales
SameFrame(d, e) ==
    /\ d.data_buf_ = e.data_buf_
    /\ d.accel_scale_ = e.accel_scale_
    /\ d.gyro_scale_ = e.gyro_scale_

\* C16: when Read_raw and Read(float*) decode the same frame under the
\* same scales, in either order, the values 0..5 of Read(float*) are the
\* counts 0..5 of Read_raw remapped (x from raw y, y from raw x, z from raw
\* z negated) and multiplied by the active scale; the counts of Read_raw
\* are the big-endian counts of the frame in transport order, accel at
\* 0..2 and gyro at 3..5, and Read_raw leaves the decoded members of the
\* object as they were.
C16_RawRoundTrip ==
    [][/\ (call.name = "Read_raw" /\ ret = TRUE /\ call'.name = "ReadValues" /\ ret' = TRUE
            /\ SameFrame(mpu, mpu'))
            => ScaledFromRaw(out', out, mpu')
       /\ (call.name = "ReadValues" /\ ret = TRUE /\ call'.name = "Read_raw" /\ ret' = TRUE
            /\ SameFrame(mpu, mpu'))
            => ScaledFromRaw(out, out', mpu')
       /\ (call'.name = "Read_raw" /\ ret' = TRUE)
            => /\ <<out'[0], out'[1], out'[2]>> = RawXYZ(mpu'.data_buf_, 1)
               /\ <<out'[3], out'[4], out'[5]>> = RawXYZ(mpu'.data_buf_, 9)
       /\ call'.name = "Read_raw" => Decoded(mpu') = Decoded(mpu)
      ]_vars

\* Read_raw returned the counts 1, -2, -32768 of a frame while the object
\* holds the values decoded from another frame
C16_Witness ==
    /\ call.name = "Read_raw"
    /\ ret = TRUE
    /\ <<out[0], out[1], out[2]>> = <<1, 0 - 2, 0 - 32768>>
    /\ mpu.accel_cnts_ = <<4660, 0 - 21829, 5>>
    /\ mpu.accel_[1] = Scaled(0 - 21829, mpu.accel_scale_, 1, "G_MPS2_")

\* every operation of the log is a write to reg
WritesOnly(ops, reg) == \A i \in 1..Len(ops) : ops[i].op = "W" /\ ops[i].reg = reg

AccelSide(d) ==
    <<d.requested_accel_range_, d.requested_accel_scale_, d.accel_range_, d.accel_scale_>>

GyroSide(d) ==
    <<d.requested_gyro_range_, d.requested_gyro_scale_, d.gyro_range_, d.gyro_scale_>>

\* filter bandwidth, divider and interconnect mode
OtherConfig(d) == <<d.requested_dlpf_, d.dlpf_bandwidth_, d.srd_, d.mag_mode_>>

\* C17: a ConfigAccelRange call, whatever its argument and outcome, issues
\* no operation but writes to ACCEL_CONFIG_ and leaves the requested and
\* active gyro range and scale unchanged; a ConfigGyroRange call issues no
\* operation but writes to GYRO_CONFIG_ and leaves the requested and active
\* accel range and scale unchanged; neither changes the filter bandwidth,
\* the divider or the interconnect mode.
C17_RangesIndependent ==
    [][/\ call'.name = "ConfigAccelRange" =>
            /\ WritesOnly(bus', "ACCEL_CONFIG_")
            /\ GyroSide(mpu') = GyroSide(mpu)
            /\ OtherConfig(mpu') = OtherConfig(mpu)
       /\ call'.name = "ConfigGyroRange" =>
            /\ WritesOnly(bus', "GYRO_CONFIG_")
            /\ AccelSide(mpu') = AccelSide(mpu)
            /\ OtherConfig(mpu') = OtherConfig(mpu)
      ]_vars

\* ConfigAccelRange made 2G active while a gyro range was requested that
\* is not the active one
C17_Witness ==
    /\ call.name = "ConfigAccelRange"
    /\ ret = TRUE
    /\ bus # <<>>
    /\ mpu.accel_range_ = ACCEL_RANGE_2G
    /\ mpu.requested_gyro_range_ = GYRO_RANGE_2000DPS
    /\ mpu.gyro_range_ = GYRO_RANGE_250DPS

\* the values written to INT_PIN_CFG_ that have the bit I2C_BYPASS_EN_ set
BypassValues == {"I2C_BYPASS_EN_", "INT_PULSE_50US_|I2C_BYPASS_EN_"}

\* the positions of the log at which INT_PIN_CFG_ is written
PinWrites(ops) == {i \in 1..Len(ops) : ops[i].op = "W" /\ ops[i].reg = "INT_PIN_CFG_"}

Switches == {"EnableDrdyInt", "DisableDrdyInt", "EnableFifo", "DisableFifo"}

\* C18: EnableDrdyInt writes INT_PIN_CFG_ once, first, with the bypass bit
\* set if and only if mag_mode_ is MAG_PASSTHROUGH; DisableDrdyInt,
\* EnableFifo and DisableFifo never write INT_PIN_CFG_; a Begin that
\* returns true leaves mag_mode_ equal to its argument, and while
\* mag_mode_ is MAG_PASSTHROUGH no call other than Begin changes it or
\* writes an INT_PIN_CFG_ value with the bypass bit clear.
C18_PassthroughPreserved ==
    [][/\ call'.name = "EnableDrdyInt" =>
            /\ PinWrites(bus') = {1}
            /\ (bus'[1].val \in BypassValues) <=> (mpu.mag_mode_ = MAG_PASSTHROUGH)
       /\ call'.name \in Switches \ {"EnableDrdyInt"} => PinWrites(bus') = {}
       /\ (call'.name = "Begin" /\ ret' = TRUE) => mpu'.mag_mode_ = call'.args[1]
       /\ (call'.name \in Switches /\ mpu.mag_mode_ = MAG_PASSTHROUGH) =>
            /\ mpu'.mag_mode_ = MAG_PASSTHROUGH
            /\ \A i \in PinWrites(bus') : bus'[i].val \in BypassValues
      ]_vars

\* after a Begin in pass-through mode that ran to its end, EnableDrdyInt
\* wrote the pin configuration with the bypass bit
C18_Witness ==
    /\ call.name = "EnableDrdyInt"
    /\ ret = TRUE
    /\ mpu.mag_mode_ = MAG_PASSTHROUGH
    /\ mpu.who_am_i_ = WHOAMI_MPU9150_
    /\ DefaultsActive(mpu)
    /\ bus[1].val = "INT_PULSE_50US_|I2C_BYPASS_EN_"

\* the methods other than Begin that use the transport
TransportUsers ==
    Switches \cup {"ConfigDlpfBandwidth", "ConfigSrd", "Read", "ReadFifo"}

\* the call c returned r, its failure value: the sentinel -1 of ReadFifo,
\* false of the others
ReturnedFailure(c, r) == IF c.name = "ReadFifo" THEN r = 0 - 1 ELSE r = FALSE

\* the register operations of the log
RegOps(ops) == {i \in 1..Len(ops) : IsRegOp(ops[i])}

\* C19: in EnableDrdyInt, DisableDrdyInt, EnableFifo, DisableFifo,
\* ConfigDlpfBandwidth, ConfigSrd, Read and ReadFifo a transport operation
\* that fails is the last operation the call issues and the call returns
\* its failure value, and no two operations of one call are the same
\* operation on the same register.
C19_FailureStopsCall ==
    call.name \in TransportUsers =>
        /\ \A i \in RegOps(bus) :
              ~bus[i].ok => (i = Len(bus) /\ ReturnedFailure(call, ret))
        /\ \A i \in RegOps(bus), j \in RegOps(bus) :
              (bus[i].op = bus[j].op /\ bus[i].reg = bus[j].reg) => i = j

\* the burst read of a poll failed after the status and count reads
C19_Witness ==
    /\ call.name = "ReadFifo"
    /\ Len(bus) = 3
    /\ bus[3].op = "F"
    /\ ~bus[3].ok
    /\ ret = 0 - 1

\* both filter registers hold the bandwidth that is active in object d
FiltersAgree(w, d) ==
    /\ w["ACCEL_CONFIG2_"] = w["CONFIG_"]
    /\ w["CONFIG_"] = d.dlpf_bandwidth_

\* C20: a Begin that returns true leaves the value last written with
\* success to ACCEL_CONFIG2_ equal to the value last written with success to
\* CONFIG_ and both equal to the active bandwidth, and every
\* ConfigDlpfBandwidth call made while they agree, whichever of its writes
\* fail, leaves them agreeing.
C20_FilterRegistersAgree ==
    [][/\ (call'.name = "Begin" /\ ret' = TRUE) => FiltersAgree(written', mpu')
       /\ (call'.name = "ConfigDlpfBandwidth" /\ FiltersAgree(written, mpu))
            => FiltersAgree(written', mpu')
      ]_vars

====
